---- MODULE Spec2Model ----
(***************************************************************************)
(* Single-decree Paxos of senutpal/quorum: the acceptor                    *)
(* (internal/paxos/acceptor.go), the in-memory storage                     *)
(* (internal/storage/memory.go), the proposer (internal/paxos/proposer.go) *)
(* and the node dispatcher (internal/node/node.go).  Proposal numbers, the *)
(* learner and the transport fabric have no code in the repository and are *)
(* modelled from their specification.                                      *)
(***************************************************************************)
EXTENDS Naturals, Integers, Sequences, FiniteSets, TLC

\* ------------------------------------------------------------------- state

VARIABLES
    msgs,        \* messages handed to the transport fabric and still in flight
    acc,         \* acc[a]: the acceptor's in-memory fields hp, ap, av
    sto,         \* sto[a]: the content of the acceptor's storage
    apc,         \* apc[a]: position of the acceptor's handler
    areq,        \* areq[a]: the request the handler is serving
    promisedOK,  \* promisedOK[a]: greatest proposal a answered Promise{OK: true}
    repliedOK,   \* repliedOK[a]: greatest proposal a answered with OK: true
    faulted,     \* faulted[a]: a Save* of the acceptor's storage returned an error
    prop,        \* prop[p]: the fields of node p's Proposer and its position
    lrn,         \* lrn[n]: the state of node n's Learner
    dups,        \* duplicating deliveries the fabric can still make
    votes,       \* every (acceptor, proposal, value) answered Accepted{OK: true}
    proposed,    \* every value a client has passed to Propose
    life,        \* life[n]: node n's running flag, stop channels and loops
    ms           \* a MemoryStorage and the byte buffers of its caller

\* ------------------------------------------------------------------ bounds

\* Largest round a proposer may use (Proposer.highestRound is an int64).
MaxRound == 2

\* Rounds one proposer may start when the whole system runs.
MaxAttempt == 1

\* Duplicating deliveries the fabric makes in one run of the whole system.
MaxDup == 1

\* Cluster: every node runs one acceptor, one learner and one proposer.
Nodes == {"n1", "n2", "n3"}

\* Nodes on which a client calls Propose.
Proposers == {"n1", "n2"}

\* Values clients submit.
Values == {"A", "B"}

\* The acceptor exercised in isolation, with arbitrary requests.
TestAcceptors == {"n3"}

\* The proposer exercised in isolation, with arbitrary replies.
TestProposers == {"n1"}

\* nil / empty []byte.
NoValue == ""

\* The nodes of the running cluster: those that own an acceptor.
Cluster == DOMAIN acc

\* quorum_size = floor(N/2) + 1.
QuorumSize == (Cardinality(Cluster) \div 2) + 1

\* ------------------------------------------------------- proposal numbers

\* The zero ProposalNumber{}: Round 0, empty ProposerID.
ZeroProposal == [round |-> 0, id |-> ""]

\* Position of a proposer id in the lexicographic order of Go strings.
IdRank(id) ==
    CASE id = "" -> 0
      [] id = "X" -> 1
      [] id = "n0" -> 2
      [] id = "n1" -> 3
      [] id = "n2" -> 4
      [] id = "n3" -> 5
      [] id = "n4" -> 6

\* ProposalNumber.GreaterThan: round first, proposer id as the tiebreaker.
GreaterThan(p, q) ==
    \/ p.round > q.round
    \/ p.round = q.round /\ IdRank(p.id) > IdRank(q.id)

\* Equal, mutated: the rounds are not compared.
EqualIgnoresRound(p, q) == p.id = q.id

\* ProposalNumber.Equal.
Equal(p, q) == p.round = q.round /\ p.id = q.id

\* ProposalNumber.LessThan.
LessThan(p, q) == GreaterThan(q, p)

\* ProposalNumber.IsZero.
IsZero(p) == p.round = 0 /\ p.id = ""

\* Proposal numbers proposers can emit: generateProposalNumber increments
\* the round before use, so rounds start at 1.
Proposals == [round : 1..MaxRound, id : Proposers]

\* ---------------------------------------------------------------- storage

\* NewMemoryStorage: the zero MemoryStorage.
NewMemoryStorage == [hp |-> ZeroProposal, ap |-> ZeroProposal, av |-> NoValue]

\* MemoryStorage.SavePromised.
SavePromised(st, proposal) == [st EXCEPT !.hp = proposal]

\* MemoryStorage.LoadPromised.
LoadPromised(st) == st.hp

\* MemoryStorage.SaveAccepted.
SaveAccepted(st, proposal, value) == [st EXCEPT !.ap = proposal, !.av = value]

\* MemoryStorage.LoadAccepted: the pair (proposal, copy of the value).
LoadAccepted(st) == [proposal |-> st.ap, value |-> st.av]

\* --------------------------------------------------------------- acceptor

\* toStorageProposal: field-by-field conversion paxos -> storage.
toStorageProposal(p) == [round |-> p.round, id |-> p.id]

\* NewAcceptor, mutated: the accepted pair is not rehydrated.
NewAcceptorForgetsAccepted(st) ==
    [hp |-> [round |-> LoadPromised(st).round, id |-> LoadPromised(st).id],
     ap |-> ZeroProposal,
     av |-> NoValue]

\* NewAcceptor, mutated: the promise is not rehydrated.
NewAcceptorForgetsPromise(st) ==
    [hp |-> ZeroProposal,
     ap |-> [round |-> LoadAccepted(st).proposal.round,
             id |-> LoadAccepted(st).proposal.id],
     av |-> LoadAccepted(st).value]

\* NewAcceptor: the in-memory fields rehydrated from storage.
NewAcceptor(st) ==
    [hp |-> [round |-> LoadPromised(st).round, id |-> LoadPromised(st).id],
     ap |-> [round |-> LoadAccepted(st).proposal.round,
             id |-> LoadAccepted(st).proposal.id],
     av |-> LoadAccepted(st).value]

\* HandlePrepare's condition, mutated: an equal proposal is promised again.
PrepareGuardOrEqual(mem, n) == GreaterThan(n, mem.hp) \/ Equal(n, mem.hp)

\* HandlePrepare's condition: msg.ProposalNumber.GreaterThan(highestPromised).
PrepareGuard(mem, n) == GreaterThan(n, mem.hp)

\* HandleAccept's condition, mutated: an equal proposal is rejected.
AcceptGuardStrict(mem, n) == GreaterThan(n, mem.hp)

\* HandleAccept's condition, mutated: every Accept is accepted.
AcceptGuardAlways(mem, n) == TRUE

\* HandleAccept's condition: GreaterThan(highestPromised) || Equal(highestPromised).
AcceptGuard(mem, n) == GreaterThan(n, mem.hp) \/ Equal(n, mem.hp)

\* HandlePrepare's in-memory update.
PrepareMem(mem, n) == [mem EXCEPT !.hp = n]

\* HandleAccept's in-memory update, mutated: highestPromised is left alone.
AcceptMemKeepsPromise(mem, n, v) == [mem EXCEPT !.ap = n, !.av = v]

\* HandleAccept's in-memory update of the three fields.
AcceptMem(mem, n, v) == [mem EXCEPT !.hp = n, !.ap = n, !.av = v]

\* HandlePrepare's storage write, mutated: nothing is written.
PersistPromiseSkipped(st, mem, ok) == st

\* a.storage.SavePromised(toStorageProposal(a.highestPromised)); ok is the
\* storage's answer (nil error or not), which the acceptor discards.
PersistPromise(st, mem, ok) ==
    IF ok THEN SavePromised(st, toStorageProposal(mem.hp)) ELSE st

\* a.storage.SaveAccepted(toStorageProposal(a.acceptedProposal), a.acceptedValue).
PersistAccepted(st, mem, ok) ==
    IF ok THEN SaveAccepted(st, toStorageProposal(mem.ap), mem.av) ELSE st

\* The affirmative Promise HandlePrepare returns.
PromiseOK(a, mem, m) ==
    [type |-> "Promise", proposal |-> m.proposal, accProposal |-> mem.ap,
     value |-> mem.av, from |-> a, ok |-> TRUE]

\* The rejecting Promise: AcceptedProposal carries highestPromised.
PromiseReject(a, mem, m) ==
    [type |-> "Promise", proposal |-> m.proposal, accProposal |-> mem.hp,
     value |-> NoValue, from |-> a, ok |-> FALSE]

\* The affirmative Accepted HandleAccept returns.
AcceptedOK(a, m) ==
    [type |-> "Accepted", proposal |-> m.proposal, accProposal |-> ZeroProposal,
     value |-> m.value, from |-> a, ok |-> TRUE]

\* The rejecting Accepted.
AcceptedReject(a, m) ==
    [type |-> "Accepted", proposal |-> m.proposal, accProposal |-> ZeroProposal,
     value |-> NoValue, from |-> a, ok |-> FALSE]

\* --------------------------------------------------------------- proposer

\* NewProposer: id, quorumSize and transport set, every other field zero.
\* pc is the position of the Propose call; acceptedFrom records who sent
\* the Accepted replies that runPhase2 counted in acceptedCount; emitted
\* lists, in order, the proposal numbers the proposer has put in a Prepare.
NewProposer ==
    [pc |-> "idle", highestRound |-> 0, currentProposal |-> ZeroProposal,
     originalValue |-> NoValue, valueToPropose |-> NoValue, promise |-> <<>>,
     acceptedCount |-> 0, acceptedFrom |-> {}, emitted |-> <<>>]

\* generateProposalNumber: the number built after highestRound++.
generateProposalNumber(p, pr) == [round |-> pr.highestRound + 1, id |-> p]

\* handleRejection, mutated: the reported round is not taken over.
handleRejectionKeepsRound(pr, highestSeen) == pr.highestRound

\* handleRejection, mutated: highestRound follows highestSeen downwards too.
handleRejectionLowers(pr, highestSeen) == highestSeen.round

\* handleRejection: highestRound after learning highestSeen.
handleRejection(pr, highestSeen) ==
    IF highestSeen.round > pr.highestRound THEN highestSeen.round ELSE pr.highestRound

\* The adoption loop of runPhase1 from promise i on: `high` is highestAccepted
\* and `v` is valueToPropose so far.
RECURSIVE AdoptFrom(_, _, _, _)
AdoptFrom(promises, i, high, v) ==
    IF i > Len(promises) THEN v
    ELSE IF /\ ~IsZero(promises[i].accProposal)
            /\ GreaterThan(promises[i].accProposal, high)
         THEN AdoptFrom(promises, i + 1, promises[i].accProposal, promises[i].value)
         ELSE AdoptFrom(promises, i + 1, high, v)

\* The adoption loop, mutated: the proposer keeps its own value.
AdoptValueIgnoresPromises(promises, v) == v

\* runPhase1's adoption loop over p.promise, starting from the zero
\* highestAccepted and the current valueToPropose.
AdoptValue(promises, v) == AdoptFrom(promises, 1, ZeroProposal, v)

\* The Learn message of runPhase2.
LearnMsg(n, v, p) == [type |-> "Learn", proposal |-> n, value |-> v, from |-> p]

\* ---------------------------------------------------------------- learner

\* NewLearner: nothing counted, nothing chosen.
NewLearner ==
    [accepted |-> {}, isChosen |-> FALSE, chosenValue |-> NoValue,
     chosenProposal |-> ZeroProposal]

\* The counted acceptor ids, mutated: the key is ignored.
AffirmersOfAnyPair(l, n, v) == {x.from : x \in l.accepted}

\* The acceptor ids counted for the key (proposal, value).
Affirmers(l, n, v) ==
    {x.from : x \in {y \in l.accepted : y.proposal = n /\ y.value = v}}

\* Learner.HandleAccepted, mutated: a repeated affirmation of an acceptor
\* counts as one more unit and completes a quorum of two.
HandleAcceptedCountsRepeats(l, m) ==
    IF ~m.ok THEN l
    ELSE LET rec == [proposal |-> m.proposal, value |-> m.value, from |-> m.from]
         IN IF rec \in l.accepted /\ ~l.isChosen
            THEN [l EXCEPT !.isChosen = TRUE, !.chosenValue = m.value,
                           !.chosenProposal = m.proposal]
            ELSE [l EXCEPT !.accepted = @ \cup {rec}]

\* Learner.HandleAccepted: a rejection is ignored; otherwise msg.From joins
\* the set of its (proposal, value) key, and the pair is chosen when the set
\* reaches the quorum and nothing was chosen before.
HandleAccepted(l, m) ==
    IF ~m.ok THEN l
    ELSE LET l1 == [l EXCEPT !.accepted =
                        @ \cup {[proposal |-> m.proposal, value |-> m.value,
                                 from |-> m.from]}]
         IN IF ~l1.isChosen
               /\ Cardinality(Affirmers(l1, m.proposal, m.value)) >= QuorumSize
            THEN [l1 EXCEPT !.isChosen = TRUE, !.chosenValue = m.value,
                            !.chosenProposal = m.proposal]
            ELSE l1

\* Learner.HandleLearn, mutated: chosen is overwritten.
HandleLearnOverwrites(l, m) ==
    [l EXCEPT !.isChosen = TRUE, !.chosenValue = m.value,
              !.chosenProposal = m.proposal]

\* Learner.HandleLearn: chosen is set if it was not; never overwritten.
HandleLearn(l, m) ==
    IF l.isChosen THEN l
    ELSE [l EXCEPT !.isChosen = TRUE, !.chosenValue = m.value,
                   !.chosenProposal = m.proposal]

\* ------------------------------------------------- buffers of the storage
\* A MemoryStorage seen with its byte slices.  st holds the storage's fields,
\* acceptedValue being the name of the slice it refers to; heap gives the
\* bytes of every slice; out names the slice the last LoadAccepted returned;
\* lastPromised and lastAccepted record the arguments of the most recent
\* SavePromised and SaveAccepted (zero and empty when there was none).

\* The caller's input slice, the slice made by SaveAccepted, the slice made
\* by LoadAccepted.
Buffers == {"in", "own", "out"}

Contents == Values \cup {NoValue}

\* NewMemoryStorage with its caller: acceptedValue is nil.
NewBuffers ==
    [st |-> [hp |-> ZeroProposal, ap |-> ZeroProposal, av |-> "nil"],
     heap |-> [b \in Buffers |-> NoValue],
     out |-> "nil",
     lastPromised |-> ZeroProposal,
     lastAccepted |-> [proposal |-> ZeroProposal, value |-> NoValue]]

\* The bytes of the slice named b; a nil slice has none.
Bytes(m, b) == IF b = "nil" THEN NoValue ELSE m.heap[b]

\* SavePromised(proposal) on the storage.
BufSavePromised(m, proposal) ==
    [m EXCEPT !.st = SavePromised(m.st, proposal), !.lastPromised = proposal]

\* SaveAccepted, mutated: the storage keeps the caller's slice.
BufSaveAcceptedKeepsSlice(m, proposal, b) ==
    [m EXCEPT !.st = SaveAccepted(m.st, proposal, b),
              !.lastAccepted = [proposal |-> proposal, value |-> Bytes(m, b)]]

\* SaveAccepted(proposal, value), value being the slice named b:
\* m.acceptedValue = make(...); copy(m.acceptedValue, value).
BufSaveAccepted(m, proposal, b) ==
    [m EXCEPT !.st = SaveAccepted(m.st, proposal, "own"),
              !.heap = [@ EXCEPT !["own"] = Bytes(m, b)],
              !.lastAccepted = [proposal |-> proposal, value |-> Bytes(m, b)]]

\* LoadAccepted, mutated: the storage's own slice is returned.
BufLoadAcceptedGivesSlice(m) == [m EXCEPT !.out = LoadAccepted(m.st).value]

\* LoadAccepted: result := make(...); copy(result, m.acceptedValue).
BufLoadAccepted(m) ==
    [m EXCEPT !.heap = [@ EXCEPT !["out"] = Bytes(m, LoadAccepted(m.st).value)],
              !.out = "out"]

\* The pair LoadAccepted returns, by value.
Loaded(m) ==
    [proposal |-> LoadAccepted(m.st).proposal,
     value |-> Bytes(BufLoadAccepted(m), BufLoadAccepted(m).out)]

\* Reset and Close: the storage is as NewMemoryStorage made it; the caller
\* keeps its slices.
BufReset(m) ==
    [m EXCEPT !.st = NewBuffers.st,
              !.lastPromised = ZeroProposal,
              !.lastAccepted = NewBuffers.lastAccepted]

\* The slices the caller can write to: its input and what it was handed.
CallerBuffers(m) == {"in"} \cup ({m.out} \ {"nil"})

\* ------------------------------------------------------- node lifecycle
\* running is Node.running; stopCh names the channel Node.stopCh refers to
\* (channels are numbered in the order they were made); closed holds the
\* channels that were closed; wg is the WaitGroup's counter; loops[c] counts
\* the handleMessages goroutines whose last read of n.stopCh gave channel c;
\* waiting counts the Stop calls blocked in wg.Wait; logged counts the
\* "receive error" lines the node has written to the log.

\* Start calls that make a new channel, per node.
MaxStarts == 3

\* Stop calls of one node that can be blocked in wg.Wait at the same time.
MaxWaiting == 2

\* Receive errors of one node that are followed.
MaxLogged == 2

Channels == 0..MaxStarts

\* NewNode: not running, stopCh = make(chan struct{}).
NewNodeLife ==
    [running |-> FALSE, stopCh |-> 0, closed |-> {}, wg |-> 0,
     loops |-> [c \in Channels |-> 0], waiting |-> 0, logged |-> 0]

\* Node.Start on a node that is not running: running = true, a new stopCh,
\* wg.Add(1), go handleMessages().
StartLife(l) ==
    [l EXCEPT !.running = TRUE, !.stopCh = @ + 1, !.wg = @ + 1,
              !.loops = [@ EXCEPT ![l.stopCh + 1] = @ + 1]]

\* Node.Stop on a running node up to wg.Wait: running = false, close(stopCh).
StopLife(l) ==
    [l EXCEPT !.running = FALSE, !.closed = @ \cup {l.stopCh}, !.waiting = @ + 1]

\* The goroutines of handleMessages that have not returned.
Loops(l) == {c \in Channels : l.loops[c] > 0}

\* A node whose receive loop runs: NewNode, then Start.
Started == StartLife(NewNodeLife)

\* A node that was started and stopped: Stop has returned, the loop is gone.
Stopped ==
    [Started EXCEPT !.running = FALSE, !.closed = {Started.stopCh}, !.wg = 0,
                    !.loops = [c \in Channels |-> 0]]

\* Some handleMessages goroutine is in the default branch of its select,
\* where it receives and dispatches: a goroutine that found its channel
\* closed has returned.
Dispatching(l) == Loops(l) # {}

\* ---------------------------------------------------- messages and start

vars == <<msgs, acc, sto, apc, areq, promisedOK, repliedOK, faulted, prop, lrn,
         dups, votes, proposed, life, ms>>

\* What the isolated acceptor's steps leave alone.
nodeVars == <<prop, lrn, dups, votes, proposed, life, ms>>

\* What the whole system's steps leave alone: its handlers run to completion.
stepVars == <<apc, areq, promisedOK, repliedOK, faulted, life, ms>>

NoRequest == [type |-> "none"]

\* Prepare and Accept as a proposer sends them (From is the proposer's id).
PrepareMsg(n) == [type |-> "Prepare", proposal |-> n, value |-> NoValue, from |-> n.id]

\* The Accept message, mutated: the value is dropped.
AcceptMsgWithoutValue(n, v) ==
    [type |-> "Accept", proposal |-> n, value |-> NoValue, from |-> n.id]

AcceptMsg(n, v) == [type |-> "Accept", proposal |-> n, value |-> v, from |-> n.id]

\* transport.Send(to, msg): the message in flight towards node `to`.
Sent(to, m) == [to |-> to, msg |-> m]

\* transport.Broadcast(msg) by node `from`: one Send per node except self.
Broadcast(from, m) == {Sent(n, m) : n \in Cluster \ {from}}

\* The greater of two proposal numbers.
MaxProposal(p, q) == IF GreaterThan(q, p) THEN q ELSE p

\* Handler positions in which no request is being served.
Quiet == {"idle", "restarted", "recovered"}

\* NewNode on every node of `nodes`, node a over the storage stores[a] and
\* in the lifecycle state lives[a]; the fabric duplicates up to `copies` times.
InitSystem(nodes, stores, lives, copies) ==
    /\ msgs = {}
    /\ acc = [a \in nodes |-> NewAcceptor(stores[a])]
    /\ sto = stores
    /\ apc = [a \in nodes |-> "idle"]
    /\ areq = [a \in nodes |-> NoRequest]
    /\ promisedOK = [a \in nodes |-> ZeroProposal]
    /\ repliedOK = [a \in nodes |-> ZeroProposal]
    /\ faulted = [a \in nodes |-> FALSE]
    /\ prop = [p \in nodes |-> NewProposer]
    /\ lrn = [n \in nodes |-> NewLearner]
    /\ dups = copies
    /\ votes = {}
    /\ proposed = {}
    /\ life = lives
    /\ ms = NewBuffers

\* NewNode and Start on every node of `nodes`, each over a fresh MemoryStorage.
InitCluster(nodes) ==
    InitSystem(nodes, [a \in nodes |-> NewMemoryStorage],
               [a \in nodes |-> Started], MaxDup)

InitAcceptors == InitCluster(Nodes)

\* ------------------------------------------- acceptor handlers, step by step
\* The isolated acceptor's fabric holds the latest reply only: what was sent
\* before has been delivered or lost.

\* routeMessage -> HandlePrepare: lock, compare, update highestPromised.
\* A rejected Prepare is answered at once; nothing else changes.
BeginPrepare(a, m) ==
    /\ apc[a] \in Quiet
    /\ IF PrepareGuard(acc[a], m.proposal)
       THEN /\ acc' = [acc EXCEPT ![a] = PrepareMem(acc[a], m.proposal)]
            /\ apc' = [apc EXCEPT ![a] = "p_save"]
            /\ areq' = [areq EXCEPT ![a] = m]
            /\ msgs' = {}
       ELSE /\ msgs' = {Sent(m.from, PromiseReject(a, acc[a], m))}
            /\ apc' = [apc EXCEPT ![a] = "idle"]
            /\ UNCHANGED <<acc, areq>>
    /\ UNCHANGED <<sto, promisedOK, repliedOK, faulted>>

\* HandlePrepare: storage.SavePromised returns ok or an error.
PrepareSave(a, ok) ==
    /\ apc[a] = "p_save"
    /\ sto' = [sto EXCEPT ![a] = PersistPromise(sto[a], acc[a], ok)]
    /\ faulted' = [faulted EXCEPT ![a] = faulted[a] \/ ~ok]
    /\ apc' = [apc EXCEPT ![a] = "p_reply"]
    /\ UNCHANGED <<msgs, acc, areq, promisedOK, repliedOK>>

\* HandlePrepare returns Promise{OK: true}; routeMessage sends it to m.From.
PrepareReply(a) ==
    /\ apc[a] = "p_reply"
    /\ msgs' = {Sent(areq[a].from, PromiseOK(a, acc[a], areq[a]))}
    /\ promisedOK' = [promisedOK EXCEPT ![a] = MaxProposal(@, areq[a].proposal)]
    /\ repliedOK' = [repliedOK EXCEPT ![a] = MaxProposal(@, areq[a].proposal)]
    /\ apc' = [apc EXCEPT ![a] = "idle"]
    /\ areq' = [areq EXCEPT ![a] = NoRequest]
    /\ UNCHANGED <<acc, sto, faulted>>

\* routeMessage -> HandleAccept: lock, compare, update the three fields.
BeginAccept(a, m) ==
    /\ apc[a] \in Quiet
    /\ IF AcceptGuard(acc[a], m.proposal)
       THEN /\ acc' = [acc EXCEPT ![a] = AcceptMem(acc[a], m.proposal, m.value)]
            /\ apc' = [apc EXCEPT ![a] = "a_save_promised"]
            /\ areq' = [areq EXCEPT ![a] = m]
            /\ msgs' = {}
       ELSE /\ msgs' = {Sent(m.from, AcceptedReject(a, m))}
            /\ apc' = [apc EXCEPT ![a] = "idle"]
            /\ UNCHANGED <<acc, areq>>
    /\ UNCHANGED <<sto, promisedOK, repliedOK, faulted>>

\* HandleAccept: storage.SavePromised.
AcceptSavePromised(a, ok) ==
    /\ apc[a] = "a_save_promised"
    /\ sto' = [sto EXCEPT ![a] = PersistPromise(sto[a], acc[a], ok)]
    /\ faulted' = [faulted EXCEPT ![a] = faulted[a] \/ ~ok]
    /\ apc' = [apc EXCEPT ![a] = "a_save_accepted"]
    /\ UNCHANGED <<msgs, acc, areq, promisedOK, repliedOK>>

\* HandleAccept: storage.SaveAccepted.
AcceptSaveAccepted(a, ok) ==
    /\ apc[a] = "a_save_accepted"
    /\ sto' = [sto EXCEPT ![a] = PersistAccepted(sto[a], acc[a], ok)]
    /\ faulted' = [faulted EXCEPT ![a] = faulted[a] \/ ~ok]
    /\ apc' = [apc EXCEPT ![a] = "a_reply"]
    /\ UNCHANGED <<msgs, acc, areq, promisedOK, repliedOK>>

\* HandleAccept returns Accepted{OK: true}; routeMessage sends it to m.From.
AcceptReply(a) ==
    /\ apc[a] = "a_reply"
    /\ msgs' = {Sent(areq[a].from, AcceptedOK(a, areq[a]))}
    /\ repliedOK' = [repliedOK EXCEPT ![a] = MaxProposal(@, areq[a].proposal)]
    /\ apc' = [apc EXCEPT ![a] = "idle"]
    /\ areq' = [areq EXCEPT ![a] = NoRequest]
    /\ UNCHANGED <<acc, sto, promisedOK, faulted>>

\* The acceptor goes away - a clean stop when no request is being served, a
\* crash otherwise - and is re-created by NewAcceptor over the same storage.
Restart(a) ==
    /\ acc' = [acc EXCEPT ![a] = NewAcceptor(sto[a])]
    /\ apc' = [apc EXCEPT ![a] = IF apc[a] \in Quiet THEN "restarted" ELSE "recovered"]
    /\ areq' = [areq EXCEPT ![a] = NoRequest]
    /\ msgs' = {}
    /\ UNCHANGED <<sto, promisedOK, repliedOK, faulted>>

\* One step of an acceptor served arbitrary requests; saves answer any of `oks`.
AcceptorStep(a, oks) ==
    /\ \/ \E n \in Proposals : BeginPrepare(a, PrepareMsg(n))
       \/ \E ok \in oks : PrepareSave(a, ok)
       \/ PrepareReply(a)
       \/ \E n \in Proposals, v \in Values : BeginAccept(a, AcceptMsg(n, v))
       \/ \E ok \in oks : AcceptSavePromised(a, ok)
       \/ \E ok \in oks : AcceptSaveAccepted(a, ok)
       \/ AcceptReply(a)
       \/ Restart(a)
    /\ UNCHANGED nodeVars

\* The acceptor over MemoryStorage, whose Save* always return nil.
NextAcceptor == \E a \in TestAcceptors : AcceptorStep(a, {TRUE})

SpecAcceptor == InitAcceptors /\ [][NextAcceptor]_vars

\* The acceptor over a Storage whose Save* may return an error.
NextFaulty == \E a \in TestAcceptors : AcceptorStep(a, BOOLEAN)

SpecFaulty == InitAcceptors /\ [][NextFaulty]_vars

\* ------------------------------------------------- proposer, step by step
\* A step of the Propose call runs from one transport.Receive to the next.
\* Each operator yields the proposer's fields after the step (pr) and the
\* messages the step handed to the transport (out).

\* Propose's loop body up to the first Receive of runPhase1: a new proposal
\* number, p.promise = nil, Prepare broadcast, promiseCount := 0.
BeginRound(p, pr) ==
    LET n == generateProposalNumber(p, pr)
    IN [pr |-> [pr EXCEPT !.pc = "phase1",
                          !.highestRound = n.round,
                          !.currentProposal = n,
                          !.promise = <<>>,
                          !.acceptedCount = 0,
                          !.acceptedFrom = {},
                          !.emitted = Append(@, n)],
        out |-> Broadcast(p, PrepareMsg(n))]

\* Propose's loop, mutated: an error of a phase ends the call as a success.
NextRoundReturns(p, pr, cap) == [pr |-> [pr EXCEPT !.pc = "done"], out |-> {}]

\* `continue` in Propose's loop: the next round.  A proposer that has used
\* `cap` rounds is followed no further.
NextRound(p, pr, cap) ==
    IF pr.highestRound < cap
    THEN BeginRound(p, pr)
    ELSE [pr |-> [pr EXCEPT !.pc = "capped"], out |-> {}]

\* runPhase1 from one Receive to the next, m being the message received.
\* Anything but a Promise for the current proposal is skipped; a rejection
\* ends the round; the promise that completes promiseCount (the length of
\* p.promise) runs the adoption loop and runPhase2 broadcasts Accept.
runPhase1(p, pr, m, cap) ==
    IF ~(m.type = "Promise" /\ Equal(m.proposal, pr.currentProposal))
    THEN [pr |-> pr, out |-> {}]
    ELSE IF ~m.ok
    THEN NextRound(p, [pr EXCEPT !.highestRound = handleRejection(pr, m.accProposal)],
                   cap)
    ELSE LET promises == Append(pr.promise, m)
         IN IF Len(promises) < QuorumSize
            THEN [pr |-> [pr EXCEPT !.promise = promises], out |-> {}]
            ELSE LET v == AdoptValue(promises, pr.valueToPropose)
                 IN [pr |-> [pr EXCEPT !.promise = promises,
                                       !.valueToPropose = v,
                                       !.pc = "phase2"],
                     out |-> Broadcast(p, AcceptMsg(pr.currentProposal, v))]

\* runPhase2 from one Receive to the next.  Anything but an Accepted for the
\* current proposal is skipped; a rejection ends the round; the reply that
\* completes acceptedCount makes the proposer broadcast Learn and Propose
\* return valueToPropose.
runPhase2(p, pr, m, cap) ==
    IF ~(m.type = "Accepted" /\ Equal(m.proposal, pr.currentProposal))
    THEN [pr |-> pr, out |-> {}]
    ELSE IF ~m.ok
    THEN NextRound(p, pr, cap)
    ELSE LET counted == [pr EXCEPT !.acceptedCount = @ + 1,
                                   !.acceptedFrom = @ \cup {m.from}]
         IN IF counted.acceptedCount < QuorumSize
            THEN [pr |-> counted, out |-> {}]
            ELSE [pr |-> [counted EXCEPT !.pc = "done"],
                  out |-> Broadcast(p, LearnMsg(pr.currentProposal,
                                                pr.valueToPropose, p))]

\* transport.Receive returns an error in runPhase1 or runPhase2: the phase
\* returns it and Propose's loop goes on (`continue`) with the next round.
ReceiveError(p, pr, cap) == NextRound(p, pr, cap)

\* The Propose call's step on receiving m, by its position.
ProposerStep(p, pr, m, cap) ==
    IF pr.pc = "phase1" THEN runPhase1(p, pr, m, cap) ELSE runPhase2(p, pr, m, cap)

\* Proposer.Propose up to the first Receive: lock, store the client's value,
\* first pass of the loop.
ProposeCall(p, pr, v) ==
    BeginRound(p, [pr EXCEPT !.originalValue = v, !.valueToPropose = v])

\* Positions of the Propose call blocked in transport.Receive.
Receiving == {"phase1", "phase2"}

\* p.mu: Propose locks it on entry and unlocks it, deferred, when it returns;
\* it is locked in every position of a call that has not returned.
muLocked(pr) == pr.pc \notin {"idle", "done"}

\* ------------------------------------------------ the proposer in isolation
\* One proposer served arbitrary replies.  The fabric holds its latest
\* broadcast only.

\* Every Promise and Accepted a peer can address to proposer p.
Replies(p) ==
    LET own == {n \in Proposals : n.id = p}
        peers == Nodes \ {p}
    IN  [type : {"Promise"}, proposal : own, accProposal : {ZeroProposal},
         value : {NoValue}, from : peers, ok : {TRUE}]
        \cup [type : {"Promise"}, proposal : own, accProposal : Proposals,
              value : Values, from : peers, ok : {TRUE}]
        \cup [type : {"Promise"}, proposal : own, accProposal : Proposals,
              value : {NoValue}, from : peers, ok : {FALSE}]
        \cup [type : {"Accepted"}, proposal : own, accProposal : {ZeroProposal},
              value : Values, from : peers, ok : {TRUE}]
        \cup [type : {"Accepted"}, proposal : own, accProposal : {ZeroProposal},
              value : {NoValue}, from : peers, ok : {FALSE}]

\* A client calls Propose(v) on the proposer.
TestPropose(p, v) ==
    /\ prop[p].pc \in {"idle", "done"}
    /\ prop[p].highestRound < MaxRound
    /\ LET r == ProposeCall(p, prop[p], v)
       IN /\ prop' = [prop EXCEPT ![p] = r.pr]
          /\ msgs' = r.out
    /\ proposed' = proposed \cup {v}
    /\ UNCHANGED <<acc, sto, lrn, dups, votes, stepVars>>

\* The proposer's Receive returns m.
TestReceive(p, m) ==
    /\ prop[p].pc \in Receiving
    /\ LET r == ProposerStep(p, prop[p], m, MaxRound)
       IN /\ prop' = [prop EXCEPT ![p] = r.pr]
          /\ msgs' = IF r.out = {} THEN msgs ELSE r.out
    /\ UNCHANGED <<acc, sto, lrn, dups, votes, proposed, stepVars>>

\* The proposer's Receive returns an error: the transport was closed.
TestReceiveFails(p) ==
    /\ prop[p].pc \in Receiving
    /\ LET r == ReceiveError(p, prop[p], MaxRound)
       IN /\ prop' = [prop EXCEPT ![p] = r.pr]
          /\ msgs' = IF r.out = {} THEN msgs ELSE r.out
    /\ UNCHANGED <<acc, sto, lrn, dups, votes, proposed, stepVars>>

NextProposer ==
    \E p \in TestProposers :
        \/ \E v \in Values : TestPropose(p, v)
        \/ \E m \in Replies(p) : TestReceive(p, m)
        \/ TestReceiveFails(p)

SpecProposer == InitAcceptors /\ [][NextProposer]_vars

\* ------------------------------------------------------- the whole system
\* The fabric holds the messages in flight.  Receive takes a message out of
\* it; a message that is never taken is lost; a duplicating delivery hands
\* the message over and keeps it in flight; any message in flight can be the
\* next one delivered (reordering).

\* Messages the transport can return to a Receive on node n.
Inbox(n) == {e \in msgs : e.to = n}

\* The fabric after e was handed over.
Remaining(e, dup) == IF dup THEN msgs ELSE msgs \ {e}

\* transport.Receive on node n returns e, duplicating it or not.
Deliver(n, e, dup) ==
    /\ e \in Inbox(n)
    /\ dup => dups > 0
    /\ dups' = IF dup THEN dups - 1 ELSE dups

\* The values a client hands to Propose on node p.  Values are opaque to the
\* protocol, so the first proposer's value is fixed.
ClientValues(p) == IF p = "n1" THEN {"A"} ELSE Values

\* Node.Propose -> Proposer.Propose.
Propose(p, v) ==
    /\ prop[p].pc \in {"idle", "done"}
    /\ prop[p].highestRound < MaxAttempt
    /\ LET r == ProposeCall(p, prop[p], v)
       IN /\ prop' = [prop EXCEPT ![p] = r.pr]
          /\ msgs' = msgs \cup r.out
    /\ proposed' = proposed \cup {v}
    /\ UNCHANGED <<acc, sto, lrn, dups, votes, stepVars>>

\* proposerTransportAdapter.Receive inside runPhase1 or runPhase2: the
\* proposer takes e from its node's inbox, whatever e is.  The call is
\* followed for `cap` rounds.
ReceiveUpTo(p, e, dup, cap) ==
    /\ prop[p].pc \in Receiving
    /\ Deliver(p, e, dup)
    /\ LET r == ProposerStep(p, prop[p], e.msg, cap)
       IN /\ prop' = [prop EXCEPT ![p] = r.pr]
          /\ msgs' = Remaining(e, dup) \cup r.out
    /\ UNCHANGED <<acc, sto, lrn, votes, proposed, stepVars>>

Receive(p, e, dup) == ReceiveUpTo(p, e, dup, MaxAttempt)

\* routeMessage's local feed, mutated: the node's own learner is not told.
LocalFeedSkipped(l, response) == l

\* routeMessage, case Accept: if response.OK { n.learner.HandleAccepted(response) }.
LocalFeed(l, response) == IF response.ok THEN HandleAccepted(l, response) ELSE l

\* handleMessages -> routeMessage: the node's receive loop takes e from the
\* inbox.  Prepare and Accept are answered by the acceptor, the reply is
\* sent to m.From and an affirmative Accepted is fed to the node's own
\* learner; Accepted and Learn feed the learner; anything else (a Promise)
\* is logged and dropped.
routeMessage(n, e, dup) ==
    /\ Dispatching(life[n])
    /\ Deliver(n, e, dup)
    /\ LET m == e.msg
           rest == Remaining(e, dup)
       IN CASE m.type = "Prepare" ->
                 IF PrepareGuard(acc[n], m.proposal)
                 THEN LET mem == PrepareMem(acc[n], m.proposal)
                      IN /\ acc' = [acc EXCEPT ![n] = mem]
                         /\ sto' = [sto EXCEPT ![n] =
                                PersistPromise(sto[n], mem, TRUE)]
                         /\ msgs' = rest \cup {Sent(m.from, PromiseOK(n, mem, m))}
                         /\ UNCHANGED <<lrn, votes>>
                 ELSE /\ msgs' = rest \cup {Sent(m.from, PromiseReject(n, acc[n], m))}
                      /\ UNCHANGED <<acc, sto, lrn, votes>>
            [] m.type = "Accept" ->
                 IF AcceptGuard(acc[n], m.proposal)
                 THEN LET mem == AcceptMem(acc[n], m.proposal, m.value)
                      IN /\ acc' = [acc EXCEPT ![n] = mem]
                         /\ sto' = [sto EXCEPT ![n] =
                                PersistAccepted(PersistPromise(sto[n], mem, TRUE),
                                                mem, TRUE)]
                         /\ msgs' = rest \cup {Sent(m.from, AcceptedOK(n, m))}
                         /\ lrn' = [lrn EXCEPT ![n] =
                                LocalFeed(lrn[n], AcceptedOK(n, m))]
                         /\ votes' = votes \cup
                                {[acceptor |-> n, proposal |-> m.proposal,
                                  value |-> m.value]}
                 ELSE /\ msgs' = rest \cup {Sent(m.from, AcceptedReject(n, m))}
                      /\ UNCHANGED <<acc, sto, lrn, votes>>
            [] m.type = "Accepted" ->
                 /\ lrn' = [lrn EXCEPT ![n] = HandleAccepted(lrn[n], m)]
                 /\ msgs' = rest
                 /\ UNCHANGED <<acc, sto, votes>>
            [] m.type = "Learn" ->
                 /\ lrn' = [lrn EXCEPT ![n] = HandleLearn(lrn[n], m)]
                 /\ msgs' = rest
                 /\ UNCHANGED <<acc, sto, votes>>
            [] OTHER ->
                 /\ msgs' = rest
                 /\ UNCHANGED <<acc, sto, lrn, votes>>
    /\ UNCHANGED <<prop, proposed, stepVars>>

\* The node's acceptor is stopped between two requests and re-created by
\* NewAcceptor over the same storage.
RestartAcceptor(n) ==
    /\ acc' = [acc EXCEPT ![n] = NewAcceptor(sto[n])]
    /\ UNCHANGED <<msgs, sto, prop, lrn, dups, votes, proposed, stepVars>>

Next ==
    \/ \E p \in Proposers : \E v \in ClientValues(p) : Propose(p, v)
    \/ \E p \in Proposers : \E e \in msgs, dup \in BOOLEAN : Receive(p, e, dup)
    \/ \E n \in Nodes : \E e \in msgs, dup \in BOOLEAN : routeMessage(n, e, dup)
    \/ \E n \in Nodes : RestartAcceptor(n)

Init == InitAcceptors

Spec == Init /\ [][Next]_vars

\* ------------------------------------------------- claims on the acceptor

\* C3 (promise rule): once the acceptor has answered Promise{OK: true} for N,
\* every later HandleAccept with a proposal strictly smaller than N is
\* answered Accepted{OK: false} and leaves the acceptor's fields and its
\* storage as they were.
C3_PromiseRule ==
    [][\A a \in Nodes, n \in Proposals, v \in Values :
        (LessThan(n, promisedOK[a]) /\ BeginAccept(a, AcceptMsg(n, v)))
            => /\ acc'[a] = acc[a]
               /\ sto'[a] = sto[a]
               /\ apc'[a] = "idle"
               /\ msgs' = {Sent(n.id, AcceptedReject(a, AcceptMsg(n, v)))}]_vars

\* C3 witness: an Accept below an earlier affirmative Promise was rejected.
C3_Witness ==
    \E a \in Nodes : \E e \in msgs :
        /\ e.msg.type = "Accepted" /\ e.msg.from = a /\ ~e.msg.ok
        /\ LessThan(e.msg.proposal, promisedOK[a])

\* C6 (A1, promise monotonicity): no step of HandlePrepare or HandleAccept
\* lowers highestPromised, and an acceptor re-created by NewAcceptor over the
\* same storage starts with highestPromised at least the proposal of every
\* affirmative reply emitted before.
C6_PromiseMonotonic ==
    [][\A a \in Nodes :
        IF Restart(a)
        THEN ~LessThan(acc'[a].hp, repliedOK[a])
        ELSE ~LessThan(acc'[a].hp, acc[a].hp)]_vars

\* C6 witness: a re-created acceptor that had answered affirmatively before.
C6_Witness ==
    \E a \in Nodes :
        /\ apc[a] \in {"restarted", "recovered"}
        /\ ~IsZero(repliedOK[a])
        /\ ~IsZero(acc[a].hp)

\* C7 (A2, accept implies promise): whenever acceptedProposal is not zero it
\* is at most highestPromised.
C7_AcceptImpliesPromise ==
    \A a \in Nodes :
        ~IsZero(acc[a].ap) => ~GreaterThan(acc[a].ap, acc[a].hp)

\* C7 witness: an accepted proposal strictly below a later promise.
C7_Witness ==
    \E a \in Nodes : ~IsZero(acc[a].ap) /\ LessThan(acc[a].ap, acc[a].hp)

\* C8 (restart honours promises): an acceptor stopped while no request is
\* being served and re-created by NewAcceptor over the same storage rejects
\* every Prepare and every Accept below the highestPromised it had, and the
\* Promise it gives for any proposal reports the accepted pair it had.
C8_RestartHonoursPromises ==
    [][\A a \in Nodes :
        (apc[a] \in Quiet /\ Restart(a)) =>
            \A n \in Proposals :
                /\ LessThan(n, acc[a].hp) =>
                       ~PrepareGuard(acc'[a], n) /\ ~AcceptGuard(acc'[a], n)
                /\ PromiseOK(a, PrepareMem(acc'[a], n), PrepareMsg(n)).accProposal
                       = acc[a].ap
                /\ PromiseOK(a, PrepareMem(acc'[a], n), PrepareMsg(n)).value
                       = acc[a].av]_vars

\* C8 witness: an acceptor re-created after a clean stop, holding a promise
\* and an accepted pair.
C8_Witness ==
    \E a \in Nodes :
        /\ apc[a] = "restarted"
        /\ ~IsZero(acc[a].hp)
        /\ ~IsZero(acc[a].ap)
        /\ LessThan(acc[a].ap, acc[a].hp)

\* C9 (A3/S2, durability before acknowledgement): when the acceptor is about
\* to return Promise{OK: true} for N the storage holds promised = N, and when
\* it is about to return Accepted{OK: true} for (N, v) the storage holds
\* promised = N and accepted = (N, v).
C9_DurableBeforeReply ==
    \A a \in Nodes :
        /\ apc[a] = "p_reply" => LoadPromised(sto[a]) = areq[a].proposal
        /\ apc[a] = "a_reply" =>
               /\ LoadPromised(sto[a]) = areq[a].proposal
               /\ LoadAccepted(sto[a]) =
                      [proposal |-> areq[a].proposal, value |-> areq[a].value]

\* C9 witness: an affirmative Accepted about to be returned by an acceptor
\* that promised before.
C9_Witness ==
    \E a \in Nodes : apc[a] = "a_reply" /\ ~IsZero(promisedOK[a])

\* C10 (storage failure stops affirmative replies): once a Save* of the
\* acceptor's storage has returned an error, no affirmative Promise or
\* Accepted of that acceptor is in flight.
C10_NoAffirmativeAfterStorageError ==
    \A a \in Nodes :
        faulted[a] => \A e \in msgs : e.msg.from = a => ~e.msg.ok

\* ------------------------------------------------- claims on the proposer

\* Indices of the collected promises that report a prior accept.
Reported(pr) ==
    {i \in 1..Len(pr.promise) : ~IsZero(pr.promise[i].accProposal)}

\* C4 (S1, value adoption): when the proposer has broadcast Accept(n, v) and
\* at least one Promise collected for n reports a non-zero accepted proposal,
\* v is the accepted value of a collected Promise whose accepted proposal no
\* other collected Promise exceeds; the Accept in flight carries n and v.
C4_ValueAdoption ==
    \A p \in Nodes :
        prop[p].pc = "phase2" =>
            /\ Broadcast(p, AcceptMsg(prop[p].currentProposal,
                                      prop[p].valueToPropose)) \subseteq msgs
            /\ \A e \in msgs :
                   (e.msg.type = "Accept" /\ e.msg.proposal = prop[p].currentProposal)
                       => e.msg.value = prop[p].valueToPropose
            /\ Reported(prop[p]) # {} =>
                   \E i \in Reported(prop[p]) :
                       /\ \A j \in Reported(prop[p]) :
                              ~GreaterThan(prop[p].promise[j].accProposal,
                                           prop[p].promise[i].accProposal)
                       /\ prop[p].valueToPropose = prop[p].promise[i].value

\* C4 witness: an Accept was broadcast with a value adopted from a Promise,
\* different from the client's value.
C4_Witness ==
    \E p \in Nodes :
        /\ prop[p].pc = "phase2"
        /\ Reported(prop[p]) # {}
        /\ prop[p].valueToPropose # prop[p].originalValue

\* The acceptors whose promises the proposer collected in this round.
PromisedBy(pr) == {pr.promise[i].from : i \in 1..Len(pr.promise)}

\* C5 (one count per acceptor): the proposer has broadcast Accept only with
\* promises of quorum_size distinct acceptors collected, and has broadcast
\* Learn and returned only with affirmative Accepted replies of quorum_size
\* distinct acceptors counted.
C5_DistinctAcceptorsCounted ==
    \A p \in Nodes :
        /\ prop[p].pc \in {"phase2", "done"} =>
               Cardinality(PromisedBy(prop[p])) >= QuorumSize
        /\ prop[p].pc = "done" =>
               Cardinality(prop[p].acceptedFrom) >= QuorumSize

\* C24 (transport failure surfaced): when transport.Receive returns an error
\* to a Propose call waiting in phase 1 or phase 2, the call returns an
\* error to its caller.
C24_ErrorSurfaced ==
    [][\A p \in TestProposers :
        TestReceiveFails(p) => prop'[p].pc = "failed"]_vars

\* C27 (P2, identifiers strictly increasing): of any two proposal numbers a
\* proposer has emitted, across retries and across Propose calls, the later
\* one is strictly greater than the earlier one.
C27_IdentifiersIncrease ==
    \A p \in Nodes : \A i, j \in 1..Len(prop[p].emitted) :
        i < j => GreaterThan(prop[p].emitted[j], prop[p].emitted[i])

\* A proposer has emitted two numbers - in a retry after a rejection or in a
\* second Propose call - and waits for the Promises of the second.
C27_Witness ==
    \E p \in TestProposers :
        /\ Len(prop[p].emitted) = 2
        /\ prop[p].pc = "phase1"
        /\ prop[p].promise = <<>>

\* ------------------------------------------- claims on the whole system

\* The acceptors that answered Accepted{OK: true} for (n, v).
AcceptedBy(n, v) ==
    {x.acceptor : x \in {y \in votes : y.proposal = n /\ y.value = v}}

\* A value is chosen at the acceptor level when one proposal carrying it was
\* accepted by a quorum of acceptors.
ChosenAtAcceptors(v) ==
    \E x \in votes :
        x.value = v /\ Cardinality(AcceptedBy(x.proposal, v)) >= QuorumSize

\* C2 (at most one value chosen): any two values chosen at the acceptor
\* level are equal.
C2_OneValueChosen ==
    \A v, w \in Values : (ChosenAtAcceptors(v) /\ ChosenAtAcceptors(w)) => v = w

\* C1 (agreement): any two learners that report a chosen value report the
\* same value.
C1_Agreement ==
    \A l, k \in Nodes :
        (lrn[l].isChosen /\ lrn[k].isChosen)
            => lrn[l].chosenValue = lrn[k].chosenValue

\* C11 (validity): every value a learner reports chosen, and every value a
\* Propose call returned, is a value some client passed to Propose.
C11_Validity ==
    /\ \A l \in Nodes : lrn[l].isChosen => lrn[l].chosenValue \in proposed
    /\ \A p \in Nodes : prop[p].pc = "done" => prop[p].valueToPropose \in proposed

\* C11 witness: a learner reports a chosen value and a Propose call returned
\* a value adopted from a Promise instead of its client's value.
C11_Witness ==
    /\ \E l \in Nodes : lrn[l].isChosen
    /\ \E p \in Nodes :
           prop[p].pc = "done" /\ prop[p].valueToPropose # prop[p].originalValue

\* C12 (one returned value): any two Propose calls that have returned, on
\* any nodes, returned the same value.
C12_SameValueReturned ==
    \A p, q \in Nodes :
        (prop[p].pc = "done" /\ prop[q].pc = "done")
            => prop[p].valueToPropose = prop[q].valueToPropose

\* ------------------------------------- the acceptor against its reference

\* The reference definition of HandlePrepare: the fields and the reply for
\* an acceptor `a` with fields `mem` served Prepare(n).
RefHandlePrepare(mem, a, n) ==
    IF GreaterThan(n, mem.hp)
    THEN [mem |-> [hp |-> n, ap |-> mem.ap, av |-> mem.av],
          reply |-> [type |-> "Promise", proposal |-> n, accProposal |-> mem.ap,
                     value |-> mem.av, from |-> a, ok |-> TRUE]]
    ELSE [mem |-> mem,
          reply |-> [type |-> "Promise", proposal |-> n, accProposal |-> mem.hp,
                     value |-> NoValue, from |-> a, ok |-> FALSE]]

\* C13 (HandlePrepare against its reference): for every state of the
\* acceptor and every proposal n, HandlePrepare leaves the fields the
\* reference gives; a rejection is answered with the reference's reply,
\* carrying highestPromised, and changes neither fields nor storage; the
\* affirmative Promise is returned with highestPromised = n and carries the
\* acceptor's accepted pair, which is also the stored one.
C13_HandlePrepareReference ==
    [][\A a \in Nodes :
        /\ \A n \in Proposals :
               BeginPrepare(a, PrepareMsg(n)) =>
                   LET r == RefHandlePrepare(acc[a], a, n)
                   IN /\ acc'[a] = r.mem
                      /\ sto'[a] = sto[a]
                      /\ IF r.reply.ok
                         THEN apc'[a] = "p_save" /\ msgs' = {}
                         ELSE apc'[a] = "idle" /\ msgs' = {Sent(n.id, r.reply)}
        /\ PrepareReply(a) =>
               /\ acc[a].hp = areq[a].proposal
               /\ acc'[a] = acc[a]
               /\ LoadAccepted(sto[a]) = [proposal |-> acc[a].ap, value |-> acc[a].av]
               /\ msgs' = {Sent(areq[a].proposal.id,
                                [type |-> "Promise", proposal |-> areq[a].proposal,
                                 accProposal |-> acc[a].ap, value |-> acc[a].av,
                                 from |-> a, ok |-> TRUE])}]_vars

\* C13 witness: an affirmative Promise reporting the acceptor's accepted
\* pair is in flight and highestPromised is its proposal.
C13_Witness ==
    \E a \in Nodes : \E e \in msgs :
        /\ e.msg.type = "Promise" /\ e.msg.from = a /\ e.msg.ok
        /\ ~IsZero(e.msg.accProposal)
        /\ e.msg.value = acc[a].av
        /\ acc[a].hp = e.msg.proposal

\* The reference definition of HandleAccept.
RefHandleAccept(mem, a, n, v) ==
    IF GreaterThan(n, mem.hp) \/ n = mem.hp
    THEN [mem |-> [hp |-> n, ap |-> n, av |-> v],
          reply |-> [type |-> "Accepted", proposal |-> n,
                     accProposal |-> ZeroProposal, value |-> v, from |-> a,
                     ok |-> TRUE]]
    ELSE [mem |-> mem,
          reply |-> [type |-> "Accepted", proposal |-> n,
                     accProposal |-> ZeroProposal, value |-> NoValue, from |-> a,
                     ok |-> FALSE]]

\* C14 (HandleAccept against its reference): for every state of the
\* acceptor and every (n, v), HandleAccept leaves the fields the reference
\* gives; a rejection is answered with Accepted{OK: false} for n and changes
\* neither the three fields nor the storage; the affirmative Accepted is
\* returned for (n, v) with all three fields set from the request.
C14_HandleAcceptReference ==
    [][\A a \in Nodes :
        /\ \A n \in Proposals, v \in Values :
               BeginAccept(a, AcceptMsg(n, v)) =>
                   LET r == RefHandleAccept(acc[a], a, n, v)
                   IN /\ acc'[a] = r.mem
                      /\ sto'[a] = sto[a]
                      /\ IF r.reply.ok
                         THEN apc'[a] = "a_save_promised" /\ msgs' = {}
                         ELSE apc'[a] = "idle" /\ msgs' = {Sent(n.id, r.reply)}
        /\ AcceptReply(a) =>
               /\ acc[a] = [hp |-> areq[a].proposal, ap |-> areq[a].proposal,
                            av |-> areq[a].value]
               /\ acc'[a] = acc[a]
               /\ msgs' = {Sent(areq[a].proposal.id,
                                [type |-> "Accepted", proposal |-> areq[a].proposal,
                                 accProposal |-> ZeroProposal,
                                 value |-> areq[a].value, from |-> a,
                                 ok |-> TRUE])}]_vars

\* C14 witness: an affirmative Accepted is in flight for a proposal equal to
\* the one the acceptor had promised before, replacing an accepted value.
C14_Witness ==
    \E a \in Nodes : \E e \in msgs :
        /\ e.msg.type = "Accepted" /\ e.msg.from = a /\ e.msg.ok
        /\ e.msg.proposal = promisedOK[a]
        /\ acc[a] = [hp |-> e.msg.proposal, ap |-> e.msg.proposal,
                     av |-> e.msg.value]

\* ------------------------------------- the acceptor's comparisons, duplicates

\* C29 (comparator asymmetry): an acceptor whose highestPromised equals N
\* rejects a Prepare with proposal exactly N, fields and storage unchanged,
\* and accepts an Accept with proposal exactly N; so an Accept for N that
\* follows the affirmative Promise for N, nothing higher having been
\* processed in between, is accepted.
C29_ComparatorAsymmetry ==
    [][\A a \in Nodes, n \in Proposals :
        /\ (Equal(n, acc[a].hp) /\ BeginPrepare(a, PrepareMsg(n)))
               => /\ acc'[a] = acc[a]
                  /\ sto'[a] = sto[a]
                  /\ apc'[a] = "idle"
                  /\ msgs' = {Sent(n.id, PromiseReject(a, acc[a], PrepareMsg(n)))}
        /\ \A v \in Values :
               (/\ Equal(n, acc[a].hp) \/ (/\ Equal(n, promisedOK[a])
                                           /\ ~GreaterThan(acc[a].hp, n))
                /\ BeginAccept(a, AcceptMsg(n, v)))
                   => /\ acc'[a] = [hp |-> n, ap |-> n, av |-> v]
                      /\ apc'[a] = "a_save_promised"
                      /\ areq'[a] = AcceptMsg(n, v)
        /\ AcceptReply(a)
               => msgs' = {Sent(areq[a].from, AcceptedOK(a, areq[a]))}]_vars

\* C29 witness: the acceptor answered Promise{OK: true} for N and then
\* Accepted{OK: true} for the same N.
C29_Witness ==
    \E a \in Nodes : \E e \in msgs :
        /\ e.msg.type = "Accepted" /\ e.msg.from = a /\ e.msg.ok
        /\ Equal(e.msg.proposal, promisedOK[a])
        /\ Equal(acc[a].ap, promisedOK[a])

\* HandlePrepare as a whole, over MemoryStorage: the acceptor's fields, its
\* storage and the reply.
HandlePrepare(a, mem, st, m) ==
    IF PrepareGuard(mem, m.proposal)
    THEN LET mem2 == PrepareMem(mem, m.proposal)
         IN [mem |-> mem2, st |-> PersistPromise(st, mem2, TRUE),
             reply |-> PromiseOK(a, mem2, m)]
    ELSE [mem |-> mem, st |-> st, reply |-> PromiseReject(a, mem, m)]

\* HandleAccept as a whole, over MemoryStorage.
HandleAccept(a, mem, st, m) ==
    IF AcceptGuard(mem, m.proposal)
    THEN LET mem2 == AcceptMem(mem, m.proposal, m.value)
         IN [mem |-> mem2,
             st |-> PersistAccepted(PersistPromise(st, mem2, TRUE), mem2, TRUE),
             reply |-> AcceptedOK(a, m)]
    ELSE [mem |-> mem, st |-> st, reply |-> AcceptedReject(a, m)]

\* HandlePrepare applied to m once, and to m again right after.
PrepareOnce(a, m) == HandlePrepare(a, acc[a], sto[a], m)

PrepareTwice(a, m) ==
    HandlePrepare(a, PrepareOnce(a, m).mem, PrepareOnce(a, m).st, m)

\* HandleAccept applied to m once, and to m again right after.
AcceptOnce(a, m) == HandleAccept(a, acc[a], sto[a], m)

AcceptTwice(a, m) ==
    HandleAccept(a, AcceptOnce(a, m).mem, AcceptOnce(a, m).st, m)

\* C30 as stated (duplicate delivery): for an acceptor between two requests,
\* the same Prepare or the same Accept delivered twice in a row leaves the
\* fields and the storage that one delivery leaves, and is answered the
\* second time as it was the first time.
C30_DuplicateSameReply ==
    \A a \in TestAcceptors :
        apc[a] \in Quiet =>
            /\ \A n \in Proposals :
                   PrepareTwice(a, PrepareMsg(n))
                       = PrepareOnce(a, PrepareMsg(n))
            /\ \A n \in Proposals, v \in Values :
                   AcceptTwice(a, AcceptMsg(n, v))
                       = AcceptOnce(a, AcceptMsg(n, v))

\* C30 (duplicate delivery, as the code has it): twice in a row leaves the
\* fields and the storage that one delivery leaves; an Accept is answered
\* the second time as the first; a rejected Prepare is rejected again with
\* the same reply; a Prepare answered Promise{OK: true} is answered the
\* second time Promise{OK: false} carrying its own proposal as the highest
\* promised.
C30_DuplicateTolerated ==
    \A a \in TestAcceptors :
        apc[a] \in Quiet =>
            /\ \A n \in Proposals :
                   LET m == PrepareMsg(n)
                       one == PrepareOnce(a, m)
                       two == PrepareTwice(a, m)
                   IN /\ two.mem = one.mem
                      /\ two.st = one.st
                      /\ two.reply = IF one.reply.ok
                                     THEN [type |-> "Promise", proposal |-> n,
                                           accProposal |-> n, value |-> NoValue,
                                           from |-> a, ok |-> FALSE]
                                     ELSE one.reply
            /\ \A n \in Proposals, v \in Values :
                   AcceptTwice(a, AcceptMsg(n, v))
                       = AcceptOnce(a, AcceptMsg(n, v))

\* C30 witness: the Prepare the acceptor had answered Promise{OK: true} came
\* again and was answered Promise{OK: false}, the fields being what the
\* first delivery left.
C30_Witness ==
    \E a \in TestAcceptors : \E e \in msgs :
        /\ apc[a] \in Quiet
        /\ e.msg.type = "Promise" /\ e.msg.from = a /\ ~e.msg.ok
        /\ Equal(e.msg.proposal, promisedOK[a])
        /\ Equal(e.msg.accProposal, e.msg.proposal)
        /\ Equal(acc[a].hp, e.msg.proposal)

\* -------------------------------------------------- the learner in isolation
\* One learner served arbitrary Accepted and Learn messages; votes records
\* the affirmations it was handed.

\* The learner exercised in isolation.
TestLearners == {"n3"}

\* The proposals of the messages the learner is served.
LearnerProposals == {[round |-> 1, id |-> p] : p \in Proposers}

\* Every Accepted an acceptor can send.
AcceptedInputs ==
    [type : {"Accepted"}, proposal : LearnerProposals,
     accProposal : {ZeroProposal}, value : Values, from : Nodes, ok : {TRUE}]
    \cup [type : {"Accepted"}, proposal : LearnerProposals,
          accProposal : {ZeroProposal}, value : {NoValue}, from : Nodes,
          ok : {FALSE}]

\* Every Learn a proposer can send.
LearnInputs ==
    {LearnMsg(n, v, n.id) : n \in LearnerProposals, v \in Values}

\* routeMessage, case Accepted (or the local feed): learner.HandleAccepted(m).
TestAccepted(l, m) ==
    /\ lrn' = [lrn EXCEPT ![l] = HandleAccepted(lrn[l], m)]
    /\ votes' = IF m.ok
                THEN votes \cup {[acceptor |-> m.from, proposal |-> m.proposal,
                                  value |-> m.value]}
                ELSE votes
    /\ UNCHANGED <<msgs, acc, sto, prop, dups, proposed, stepVars>>

\* routeMessage, case Learn: learner.HandleLearn(m).
TestLearn(l, m) ==
    /\ lrn' = [lrn EXCEPT ![l] = HandleLearn(lrn[l], m)]
    /\ UNCHANGED <<msgs, acc, sto, prop, dups, votes, proposed, stepVars>>

NextLearner ==
    \E l \in TestLearners :
        \/ \E m \in AcceptedInputs : TestAccepted(l, m)
        \/ \E m \in LearnInputs : TestLearn(l, m)

SpecLearner == InitAcceptors /\ [][NextLearner]_vars

\* --------------------------------------------------- claims on the learner

\* The acceptors whose affirmation of (n, v) is recorded in vs.
HeardFrom(vs, n, v) ==
    {x.acceptor : x \in {y \in vs : y.proposal = n /\ y.value = v}}

C16_ChosenImmutable ==
    [][\A l \in Nodes :
        lrn[l].isChosen =>
            /\ lrn'[l].isChosen
            /\ lrn'[l].chosenValue = lrn[l].chosenValue
            /\ lrn'[l].chosenProposal = lrn[l].chosenProposal]_vars

\* C16 witness: a learner with chosen set has since been handed an
\* affirmation of another pair by a quorum of acceptors.
C16_Witness ==
    \E l \in Nodes : \E x \in votes :
        /\ lrn[l].isChosen
        /\ x.value # lrn[l].chosenValue
        /\ Cardinality(HeardFrom(votes, x.proposal, x.value)) >= QuorumSize

\* C17 (idempotent counting): handing the learner an affirmative Accepted a
\* second time, at once or later, leaves its state as it was, and no key
\* counts more units than the distinct acceptors that affirmed it.
C17_IdempotentCounting ==
    \A l \in TestLearners :
        /\ \A m \in AcceptedInputs :
               /\ HandleAccepted(HandleAccepted(lrn[l], m), m)
                      = HandleAccepted(lrn[l], m)
               /\ [acceptor |-> m.from, proposal |-> m.proposal, value |-> m.value]
                      \in votes => HandleAccepted(lrn[l], m) = lrn[l]
        /\ \A x \in votes :
               Affirmers(lrn[l], x.proposal, x.value)
                   = HeardFrom(votes, x.proposal, x.value)

\* C17 witness: no pair is chosen and the learner holds a key one unit short
\* of the quorum, so that counting a repeated affirmation would complete it.
C17_Witness ==
    \E l \in TestLearners : \E x \in votes :
        /\ ~lrn[l].isChosen
        /\ Cardinality(Affirmers(lrn[l], x.proposal, x.value)) = QuorumSize - 1
        /\ HandleAccepted(lrn[l],
               [type |-> "Accepted", proposal |-> x.proposal,
                accProposal |-> ZeroProposal, value |-> x.value,
                from |-> x.acceptor, ok |-> TRUE]) = lrn[l]

\* ------------------------------------------------ claims on the dispatcher

\* C18 (N1, local learner feed): at every instant, each affirmative Accepted
\* a node's acceptor has returned for (n, v) is counted by that node's own
\* learner under the key (n, v) with the acceptor's id, and the learner
\* holds no affirmation of its own acceptor that the acceptor did not give:
\* a rejected Accept is not fed.
C18_LocalLearnerFeed ==
    \A n \in Nodes :
        /\ \A x \in votes :
               x.acceptor = n => n \in Affirmers(lrn[n], x.proposal, x.value)
        /\ \A r \in lrn[n].accepted :
               r.from = n =>
                   [acceptor |-> n, proposal |-> r.proposal, value |-> r.value]
                       \in votes

\* C18 witness: a node's acceptor has accepted one proposal, fed to its
\* learner, and an Accepted{OK: false} of some acceptor is in flight.
C18_Witness ==
    /\ \E x \in votes :
           x.acceptor \in Affirmers(lrn[x.acceptor], x.proposal, x.value)
    /\ \E e \in msgs :
           /\ e.msg.type = "Accepted" /\ ~e.msg.ok
           /\ Affirmers(lrn[e.msg.from], e.msg.proposal, NoValue) = {}
           /\ \A v \in Values :
                  e.msg.from \notin Affirmers(lrn[e.msg.from], e.msg.proposal, v)

\* C19 (Promise routing): a Promise for the current proposal that leaves the
\* inbox of a node whose Propose call is in phase 1 is handled by that
\* call's runPhase1: counted, or taken as the rejection of the round.
C19_PromiseReachesProposer ==
    [][\A n \in Nodes : \A e \in msgs :
        (/\ e.to = n
         /\ e.msg.type = "Promise"
         /\ prop[n].pc = "phase1"
         /\ Equal(e.msg.proposal, prop[n].currentProposal)
         /\ e \notin msgs')
            => prop'[n] = runPhase1(n, prop[n], e.msg, MaxAttempt).pr]_vars

\* -------------------------------------------- node lifecycle, step by step
\* Start and Stop are called by any number of client goroutines on one node;
\* each handleMessages goroutine takes one pass of its loop at a time and
\* dispatches what peers have sent to the node.

TestNodes == {"n3"}

\* Node.Start: a no-op on a running node.
StartCall(n) ==
    /\ IF life[n].running
       THEN UNCHANGED life
       ELSE /\ life[n].stopCh < MaxStarts
            /\ life' = [life EXCEPT ![n] = StartLife(life[n])]
    /\ UNCHANGED <<msgs, acc, sto, prop, lrn, dups, votes, proposed, ms,
                   apc, areq, promisedOK, repliedOK, faulted>>

\* Node.Stop up to wg.Wait: a no-op that returns at once on a node that is
\* not running.
StopCall(n) ==
    /\ IF ~life[n].running
       THEN UNCHANGED life
       ELSE /\ life[n].waiting < MaxWaiting
            /\ life' = [life EXCEPT ![n] = StopLife(life[n])]
    /\ UNCHANGED <<msgs, acc, sto, prop, lrn, dups, votes, proposed, ms,
                   apc, areq, promisedOK, repliedOK, faulted>>

\* wg.Wait returns in a Stop call: the counter is zero.
StopReturn(n) ==
    /\ life[n].waiting > 0
    /\ life[n].wg = 0
    /\ life' = [life EXCEPT ![n].waiting = @ - 1]
    /\ UNCHANGED <<msgs, acc, sto, prop, lrn, dups, votes, proposed, ms,
                   apc, areq, promisedOK, repliedOK, faulted>>

\* One pass of handleMessages in a goroutine whose last read of n.stopCh
\* gave channel c.  It reads n.stopCh without holding n.mu while Start may
\* write it: the read gives d, the channel read before or the current one.
\* On a closed channel the goroutine returns (wg.Done); otherwise the default
\* branch runs and the loop goes round.
LoopSelect(n, c, d) ==
    /\ life[n].loops[c] > 0
    /\ d \in {c, life[n].stopCh}
    /\ life' = [life EXCEPT ![n] =
            IF d \in life[n].closed
            THEN [@ EXCEPT !.loops = [@ EXCEPT ![c] = @ - 1], !.wg = @ - 1]
            ELSE [@ EXCEPT !.loops = [[@ EXCEPT ![c] = @ - 1] EXCEPT ![d] = @ + 1]]]
    /\ UNCHANGED <<msgs, acc, sto, prop, lrn, dups, votes, proposed, ms,
                   apc, areq, promisedOK, repliedOK, faulted>>

LoopStep(n) == \E c, d \in Channels : LoopSelect(n, c, d)

\* A peer sends a Prepare to the node.
PeerSend(n, m) ==
    /\ msgs' = msgs \cup {Sent(n, m)}
    /\ UNCHANGED <<acc, sto, prop, lrn, dups, votes, proposed, stepVars>>

\* A handleMessages goroutine of the node dispatches a message.
LoopRoute(n) == \E e \in msgs : routeMessage(n, e, FALSE)

\* ReceiveTimeout returns an error that is not ErrTimeout (the fabric was
\* closed) to a handleMessages goroutine of the node: the error is logged
\* and the loop goes round (`continue`).
LoopReceiveFails(n) ==
    /\ Dispatching(life[n])
    /\ life[n].logged < MaxLogged
    /\ life' = [life EXCEPT ![n].logged = @ + 1]
    /\ UNCHANGED <<msgs, acc, sto, prop, lrn, dups, votes, proposed, ms,
                   apc, areq, promisedOK, repliedOK, faulted>>

NextLifecycle ==
    \E n \in TestNodes :
        \/ StartCall(n)
        \/ StopCall(n)
        \/ StopReturn(n)
        \/ LoopStep(n)
        \/ \E p \in LearnerProposals : PeerSend(n, PrepareMsg(p))
        \/ LoopRoute(n)
        \/ LoopReceiveFails(n)

InitLifecycle ==
    InitSystem(Nodes, [a \in Nodes |-> NewMemoryStorage],
               [a \in Nodes |-> NewNodeLife], 0)

\* Goroutines that can run are scheduled: a Stop call whose wait is over
\* returns, a receive loop goes on to its next pass.
SpecLifecycle ==
    /\ InitLifecycle
    /\ [][NextLifecycle]_vars
    /\ \A n \in TestNodes : WF_vars(StopReturn(n)) /\ WF_vars(LoopStep(n))

\* C26 (lifecycle): every Stop call eventually returns.
C26_StopReturns ==
    \A n \in TestNodes : (life[n].waiting > 0) ~> (life[n].waiting = 0)

\* ------------------------------------------------- the storage in isolation
\* One MemoryStorage and a caller that saves, loads, and overwrites the
\* slices it holds.

StSavePromised(p) ==
    /\ ms' = BufSavePromised(ms, p)
    /\ UNCHANGED <<msgs, acc, sto, prop, lrn, dups, votes, proposed, life,
                   apc, areq, promisedOK, repliedOK, faulted>>

StSaveAccepted(p) ==
    /\ ms' = BufSaveAccepted(ms, p, "in")
    /\ UNCHANGED <<msgs, acc, sto, prop, lrn, dups, votes, proposed, life,
                   apc, areq, promisedOK, repliedOK, faulted>>

StLoadAccepted ==
    /\ ms' = BufLoadAccepted(ms)
    /\ UNCHANGED <<msgs, acc, sto, prop, lrn, dups, votes, proposed, life,
                   apc, areq, promisedOK, repliedOK, faulted>>

StReset ==
    /\ ms' = BufReset(ms)
    /\ UNCHANGED <<msgs, acc, sto, prop, lrn, dups, votes, proposed, life,
                   apc, areq, promisedOK, repliedOK, faulted>>

\* The caller overwrites the bytes of a slice it holds.
CallerWrites(b, v) ==
    /\ b \in CallerBuffers(ms)
    /\ ms' = [ms EXCEPT !.heap = [@ EXCEPT ![b] = v]]
    /\ UNCHANGED <<msgs, acc, sto, prop, lrn, dups, votes, proposed, life,
                   apc, areq, promisedOK, repliedOK, faulted>>

NextStorage ==
    \/ \E p \in Proposals : StSavePromised(p)
    \/ \E p \in Proposals : StSaveAccepted(p)
    \/ StLoadAccepted
    \/ StReset
    \/ \E b \in Buffers, v \in Contents : CallerWrites(b, v)

SpecStorage == InitAcceptors /\ [][NextStorage]_vars

\* C28 (storage round trip): LoadPromised returns the proposal of the most
\* recent SavePromised and LoadAccepted returns, byte for byte, the pair of
\* the most recent SaveAccepted - zero and empty if there was none - whatever
\* the caller has written since into its input slice or into a slice it was
\* handed by an earlier LoadAccepted.
C28_StorageRoundTrip ==
    /\ LoadPromised(ms.st) = ms.lastPromised
    /\ Loaded(ms) = ms.lastAccepted

\* A pair was saved and loaded, and the caller has since overwritten both its
\* input slice and the slice it was handed.
C28_Witness ==
    /\ ~IsZero(ms.lastAccepted.proposal)
    /\ ms.lastAccepted.value \in Values
    /\ ms.out # "nil"
    /\ ms.heap["in"] # ms.lastAccepted.value
    /\ ms.heap[ms.out] # ms.lastAccepted.value

\* ------------------------------------------------------ the happy path (S1)
\* Five started nodes, one client call, a fabric that delivers every message
\* once; every goroutine that can take a step eventually takes one.

\* The cluster of scenario S1; its quorum is 3.
HappyNodes == {"n0", "n1", "n2", "n3", "n4"}

InitHappy ==
    InitSystem(HappyNodes, [a \in HappyNodes |-> NewMemoryStorage],
               [a \in HappyNodes |-> Started], 0)

\* The single client call n0.Propose("hello").
HappyPropose == prop["n0"].pc = "idle" /\ Propose("n0", "hello")

\* The Propose call on n0 takes a message from n0's inbox.
HappyReceive == \E e \in msgs : Receive("n0", e, FALSE)

\* The receive loop of node n takes a message from n's inbox.
HappyRoute(n) == \E e \in msgs : routeMessage(n, e, FALSE)

NextHappy ==
    \/ HappyPropose
    \/ HappyReceive
    \/ \E n \in HappyNodes : HappyRoute(n)

SpecHappy ==
    /\ InitHappy
    /\ [][NextHappy]_vars
    /\ WF_vars(HappyPropose)
    /\ WF_vars(HappyReceive)
    /\ \A n \in HappyNodes : WF_vars(HappyRoute(n))

\* C20 (S1, happy path): eventually the Propose call has returned "hello"
\* and all five learners report chosen = "hello" with proposal (1, "n0").
C20_HappyPath ==
    <>(/\ prop["n0"].pc = "done"
       /\ prop["n0"].valueToPropose = "hello"
       /\ \A l \in HappyNodes :
              /\ lrn[l].isChosen
              /\ lrn[l].chosenValue = "hello"
              /\ lrn[l].chosenProposal = [round |-> 1, id |-> "n0"])

\* ------------------------------------------- scenarios with stopped nodes
\* Five nodes of which some were stopped before the client's call.  A stopped
\* node has no receive loop: what is sent to it stays in its inbox.  The
\* fabric delivers every message and may deliver a message more than once.

\* Duplicating deliveries the fabric can make in a scenario.
MaxCopies == 4

\* NewNode on n0..n4, Start on all, Stop on the nodes of `down`.
InitStopped(down) ==
    InitSystem(HappyNodes, [a \in HappyNodes |-> NewMemoryStorage],
               [a \in HappyNodes |-> IF a \in down THEN Stopped ELSE Started],
               MaxCopies)

\* The single client call n0.Propose(v).
ScenarioPropose(v) == prop["n0"].pc = "idle" /\ Propose("n0", v)

\* The Propose call on n0 takes a message from n0's inbox.
ScenarioReceive(cap) ==
    \E e \in msgs, dup \in BOOLEAN : ReceiveUpTo("n0", e, dup, cap)

\* The receive loop of node n takes a message from n's inbox.
ScenarioRoute(n) == \E e \in msgs, dup \in BOOLEAN : routeMessage(n, e, dup)

\* S4: n3 and n4 are stopped, then n0.Propose("ok").
InitMinority == InitStopped({"n3", "n4"})

NextMinority ==
    \/ ScenarioPropose("ok")
    \/ ScenarioReceive(MaxAttempt)
    \/ \E n \in HappyNodes : ScenarioRoute(n)

SpecMinority ==
    /\ InitMinority
    /\ [][NextMinority]_vars
    /\ WF_vars(ScenarioPropose("ok"))
    /\ WF_vars(ScenarioReceive(MaxAttempt))
    /\ \A n \in HappyNodes : WF_vars(ScenarioRoute(n))

\* C21 (S4, minority failure): eventually the Propose call has returned and
\* n0, n1 and n2 all report chosen = "ok".  A call that goes on to a round
\* beyond those followed is not judged.
C21_MinorityFailure ==
    <>(\/ prop["n0"].pc = "capped"
       \/ /\ prop["n0"].pc = "done"
          /\ \A l \in {"n0", "n1", "n2"} :
                 lrn[l].isChosen /\ lrn[l].chosenValue = "ok")

\* C25 (waits are cancelable): no round of the Propose call waits for ever;
\* a round whose quorum does not arrive ends, by the call's return or by the
\* start of another round.
C25_WaitsEnd ==
    \A r \in 1..MaxAttempt :
        (prop["n0"].pc \in Receiving /\ prop["n0"].currentProposal.round = r)
            ~> ~(prop["n0"].pc \in Receiving /\ prop["n0"].currentProposal.round = r)

\* S5: n2, n3 and n4 are stopped, then n0.Propose("nope").
InitMajority == InitStopped({"n2", "n3", "n4"})

NextMajority ==
    \/ ScenarioPropose("nope")
    \/ ScenarioReceive(MaxAttempt)
    \/ \E n \in HappyNodes : ScenarioRoute(n)

SpecMajority == InitMajority /\ [][NextMajority]_vars

\* C22 (S5, majority failure): the Propose call never returns and no node's
\* learner ever reports a chosen value.
C22_MajorityFailure ==
    /\ prop["n0"].pc # "done"
    /\ \A l \in HappyNodes : ~lrn[l].isChosen

\* ------------------------------------------------ value adoption (S2)
\* The storages of n1 and n2 hold an accepted pair when the nodes are made.

\* The pair n1 and n2 start with.
SeedProposal == [round |-> 5, id |-> "X"]
SeedValue == "A"

\* Rounds the Propose call is followed for: a rejection carrying the seed's
\* proposal leads to the round after the seed's.
SeedRounds == SeedProposal.round + 1

\* A storage seeded through its interface: SaveAccepted(seed) on a new
\* MemoryStorage.  No promise is stored.
SeededStorage == SaveAccepted(NewMemoryStorage, SeedProposal, SeedValue)

InitAdoption ==
    InitSystem(HappyNodes,
               [a \in HappyNodes |-> IF a \in {"n1", "n2"}
                                     THEN SeededStorage
                                     ELSE NewMemoryStorage],
               [a \in HappyNodes |-> Started], MaxDup)

\* The fabric duplicates replies on their way to the Propose call only.
NextAdoption ==
    \/ ScenarioPropose("B")
    \/ ScenarioReceive(SeedRounds)
    \/ \E n \in HappyNodes : HappyRoute(n)

SpecAdoption == InitAdoption /\ [][NextAdoption]_vars

\* C23 (S2, value adoption): a Propose call that returns returns "A", and
\* every learner that reports a chosen value reports "A".
C23_AdoptionScenario ==
    /\ prop["n0"].pc = "done" => prop["n0"].valueToPropose = SeedValue
    /\ \A l \in HappyNodes : lrn[l].isChosen => lrn[l].chosenValue = SeedValue

\* ------------------------------------------------ rejection and retry (S3)
\* Three nodes; the storages of n1 and n2 hold a promise when the nodes are
\* made, so the first Prepare of n0 is rejected by both.

\* The cluster of the scenario; its quorum is 2.
RetryNodes == {"n0", "n1", "n2"}

\* The promises n1 and n2 start with.
PriorPromises ==
    [a \in {"n1", "n2"} |-> IF a = "n1" THEN [round |-> 2, id |-> "n1"]
                                         ELSE [round |-> 3, id |-> "n2"]]

\* Rounds the Propose call is followed for: the round after the promise
\* of n2, the highest.
RetryRounds == PriorPromises["n2"].round + 1

InitRejection ==
    InitSystem(RetryNodes,
               [a \in RetryNodes |-> IF a \in DOMAIN PriorPromises
                                     THEN SavePromised(NewMemoryStorage,
                                                       PriorPromises[a])
                                     ELSE NewMemoryStorage],
               [a \in RetryNodes |-> Started], MaxDup)

NextRejection ==
    \/ ScenarioPropose("v")
    \/ ScenarioReceive(RetryRounds)
    \/ \E n \in RetryNodes : ScenarioRoute(n)

SpecRejection == InitRejection /\ [][NextRejection]_vars

\* The greater of two rounds.
MaxOf(a, b) == IF a > b THEN a ELSE b

\* C31 (rejection bumps the round): when runPhase1 receives a Promise with
\* ok = false for the current proposal, no Accept is sent for that proposal,
\* highestRound becomes max(highestRound, highest_seen.round) and the next
\* Prepare, sent in the same step by the next pass of Propose's loop, carries
\* the round after it, which is greater than highest_seen.round.
C31_RejectionBumpsRound ==
    [][\A e \in msgs, dup \in BOOLEAN :
          LET pr == prop["n0"]
              m == e.msg
              hint == MaxOf(pr.highestRound, m.accProposal.round)
          IN (/\ pr.pc = "phase1"
              /\ e.to = "n0"
              /\ m.type = "Promise"
              /\ ~m.ok
              /\ Equal(m.proposal, pr.currentProposal)
              /\ ReceiveUpTo("n0", e, dup, RetryRounds))
             => /\ \A x \in msgs' \ msgs : x.msg.type # "Accept"
                /\ \A x \in msgs' : x.msg.type = "Accept"
                       => ~Equal(x.msg.proposal, pr.currentProposal)
                /\ \/ /\ prop'["n0"].pc = "capped"
                      /\ prop'["n0"].highestRound = hint
                   \/ /\ prop'["n0"].pc = "phase1"
                      /\ prop'["n0"].highestRound = hint + 1
                      /\ prop'["n0"].currentProposal.round = hint + 1
                      /\ prop'["n0"].currentProposal.round > m.accProposal.round
                      /\ Broadcast("n0", PrepareMsg(prop'["n0"].currentProposal))
                             \subseteq msgs']_vars

\* n0 was rejected at (1, "n0") by the acceptor that had promised (3, "n2")
\* and sent its next Prepare with round 4.
C31_Witness ==
    /\ prop["n0"].emitted = <<[round |-> 1, id |-> "n0"], [round |-> 4, id |-> "n0"]>>
    /\ prop["n0"].pc = "phase1"

\* ------------------------------------------------ two competing proposers
\* Three nodes; clients call Propose on n0 and on n2, each once.  The fabric
\* delivers every message once.

\* The nodes whose Propose is called.
Contenders == {"n0", "n2"}

\* Rounds each Propose call is followed for.
ContentionRounds == MaxAttempt + 1

InitContention ==
    InitSystem(RetryNodes, [a \in RetryNodes |-> NewMemoryStorage],
               [a \in RetryNodes |-> Started], 0)

\* The client's call on node p: n0 is given "v", n2 is given "w".
ContenderPropose(p) ==
    prop[p].pc = "idle" /\ Propose(p, IF p = "n0" THEN "v" ELSE "w")

\* The Propose call on p takes a message from p's inbox.
ContenderReceive(p) == \E e \in msgs : ReceiveUpTo(p, e, FALSE, ContentionRounds)

NextContention ==
    \/ \E p \in Contenders : ContenderPropose(p)
    \/ \E p \in Contenders : ContenderReceive(p)
    \/ \E n \in RetryNodes : HappyRoute(n)

SpecContention == InitContention /\ [][NextContention]_vars

\* C32 (Phase 2 rejection restarts from Phase 1): when runPhase2 receives an
\* Accepted with ok = false for the current proposal, no Learn is sent for
\* that proposal, Propose does not return, highestRound is raised by what
\* the reply reports (an Accepted reports no proposal of the acceptor, so
\* by nothing) and the next pass of the loop sends Prepare with a greater
\* identifier, of the round after highestRound.
C32_Phase2RejectionRestarts ==
    [][\A p \in Contenders : \A e \in msgs :
          LET pr == prop[p]
              m == e.msg
          IN (/\ pr.pc = "phase2"
              /\ e.to = p
              /\ m.type = "Accepted"
              /\ ~m.ok
              /\ Equal(m.proposal, pr.currentProposal)
              /\ ReceiveUpTo(p, e, FALSE, ContentionRounds))
             => LET hint == MaxOf(pr.highestRound, m.accProposal.round)
                IN /\ \A x \in msgs' : x.msg.type = "Learn"
                          => ~Equal(x.msg.proposal, pr.currentProposal)
                   /\ prop'[p].pc # "done"
                   /\ \/ /\ prop'[p].pc = "capped"
                         /\ prop'[p].highestRound = hint
                      \/ /\ prop'[p].pc = "phase1"
                         /\ prop'[p].highestRound = hint + 1
                         /\ GreaterThan(prop'[p].currentProposal, pr.currentProposal)
                         /\ Broadcast(p, PrepareMsg(prop'[p].currentProposal))
                                \subseteq msgs']_vars

\* n0 sent Accept for (1, "n0"), which an acceptor accepted, was rejected by
\* another acceptor and has sent Prepare for (2, "n0").
C32_Witness ==
    /\ prop["n0"].emitted = <<[round |-> 1, id |-> "n0"], [round |-> 2, id |-> "n0"]>>
    /\ prop["n0"].pc = "phase1"
    /\ \E x \in votes : x.proposal = [round |-> 1, id |-> "n0"]

\* ------------------------------------------------ claims on the retry loop

\* C33 (per-round reset): while the proposer collects the Promises of a
\* round its promise set holds Promises for that round only, and before the
\* quorum is reached valueToPropose is the client's value; the value sent in
\* Accept(n, v) is the client's value whenever no Promise collected for n
\* reports a prior accept.
C33_PerRoundReset ==
    \A p \in TestProposers :
        /\ \A i \in 1..Len(prop[p].promise) :
               Equal(prop[p].promise[i].proposal, prop[p].currentProposal)
        /\ prop[p].pc = "phase1" => prop[p].valueToPropose = prop[p].originalValue
        /\ (prop[p].pc = "phase2" /\ Reported(prop[p]) = {})
               => /\ prop[p].valueToPropose = prop[p].originalValue
                  /\ \A e \in msgs : e.msg.type = "Accept"
                         => e.msg.value = prop[p].originalValue

\* C34 (stale replies are ignored): a Promise or an Accepted whose proposal
\* is not the current proposal, with ok true or false, changes nothing in
\* the proposer - highestRound, the promise set, valueToPropose, the count
\* of Accepted and the position in Propose stay as they are - and nothing is
\* sent.
C34_StaleRepliesIgnored ==
    [][\A p \in TestProposers : \A m \in Replies(p) :
          (/\ m.proposal # prop[p].currentProposal
           /\ TestReceive(p, m))
          => /\ prop'[p] = prop[p]
             /\ msgs' = msgs]_vars

\* The proposer is in its second round and has counted one reply of it, in
\* Phase 1 or in Phase 2; the replies it can receive include those for the
\* first round's proposal.
C34_Witness ==
    \E p \in TestProposers :
        /\ prop[p].currentProposal.round = 2
        /\ \/ prop[p].pc = "phase1" /\ Len(prop[p].promise) = 1
           \/ prop[p].pc = "phase2" /\ prop[p].acceptedCount = 1
        /\ \E m \in Replies(p) : m.proposal.round = 1

\* ------------------------------------------- one value per proposal number

\* The messages of one type in flight.
InFlight(type) == {e.msg : e \in {x \in msgs : x.msg.type = type}}

\* The affirmative Promises in flight that report a prior accept.
Reporting == {m \in InFlight("Promise") : m.ok /\ ~IsZero(m.accProposal)}

\* Accept(n, v) was broadcast and an acceptor accepted it.
Voted(n, v) == \E y \in votes : y.proposal = n /\ y.value = v

\* Whatever carries a proposal number with a value - an Accept in flight, an
\* acceptor's recorded accept, a Learn, a Promise reporting a prior accept -
\* agrees on the value of a number.
OneValuePerProposal ==
    /\ \A x, y \in InFlight("Accept") : x.proposal = y.proposal => x.value = y.value
    /\ \A x \in InFlight("Accept") : \A y \in votes :
           x.proposal = y.proposal => x.value = y.value
    /\ \A x, y \in votes : x.proposal = y.proposal => x.value = y.value
    /\ \A l \in InFlight("Learn") : Voted(l.proposal, l.value)
    /\ \A x, y \in Reporting : x.accProposal = y.accProposal => x.value = y.value
    /\ \A x \in Reporting : Voted(x.accProposal, x.value)
    /\ \A a \in Cluster : ~IsZero(acc[a].ap) => Voted(acc[a].ap, acc[a].av)

\* A step that puts an Accept on the fabric is the step in which its sender
\* ends Phase 1 of the Accept's proposal; the value is its valueToPropose.
AcceptSentOncePerRound ==
    \A e \in msgs' \ msgs :
        e.msg.type = "Accept" =>
            LET p == e.msg.from
            IN /\ prop[p].pc = "phase1"
               /\ prop'[p].pc = "phase2"
               /\ e.msg.proposal = prop[p].currentProposal
               /\ e.msg.proposal = prop'[p].currentProposal
               /\ e.msg.value = prop'[p].valueToPropose

C36_NoLockAcrossReceive ==
    \A p \in TestProposers : prop[p].pc \in Receiving => ~muLocked(prop[p])

\* C37 (the receive loop exits on a transport error): in the step in which
\* ReceiveTimeout returns an error other than the timeout to a receive loop,
\* that goroutine returns: the node has one loop less and the WaitGroup's
\* counter is one lower.
C37_LoopExitsOnError ==
    [][\A n \in TestNodes :
          LoopReceiveFails(n)
              => /\ life'[n].wg = life[n].wg - 1
                 /\ \E c \in Channels : life'[n].loops[c] = life[n].loops[c] - 1]_vars

\* C38 (the proposer does not take its node's messages): a Propose call
\* never takes a Prepare, an Accept, an Accepted or a Learn from its node's
\* inbox; these are left to the node's receive loop.
C38_ProposerLeavesInbox ==
    [][\A p \in Proposers : \A e \in msgs, dup \in BOOLEAN :
          Receive(p, e, dup)
              => e.msg.type \notin {"Prepare", "Accept", "Accepted", "Learn"}]_vars

\* C39 (the proposing node learns its own result): once the Propose call on
\* n0 has returned v, eventually n0's learner reports v as chosen
\* (GetChosenValue returns (v, true)).
C39_ProposerLearnsOwnResult ==
    \A v \in {"hello"} :
        (prop["n0"].pc = "done" /\ prop["n0"].valueToPropose = v)
            ~> (lrn["n0"].isChosen /\ lrn["n0"].chosenValue = v)

\* C40 (the durable record is consistent at every crash point): in every
\* state, also between the two saves of one HandleAccept, the stored
\* accepted proposal is not above the stored promise; an acceptor re-created
\* from the storage has acceptedProposal <= highestPromised, and no
\* affirmative Promise reports an accepted proposal above the promised one.
C40_DurableRecordConsistent ==
    \A a \in TestAcceptors :
        /\ ~GreaterThan(LoadAccepted(sto[a]).proposal, LoadPromised(sto[a]))
        /\ ~GreaterThan(NewAcceptor(sto[a]).ap, NewAcceptor(sto[a]).hp)
        /\ apc[a] \in {"restarted", "recovered"}
               => /\ acc[a] = NewAcceptor(sto[a])
                  /\ ~GreaterThan(acc[a].ap, acc[a].hp)
        /\ \A e \in msgs :
               (e.msg.type = "Promise" /\ e.msg.from = a /\ e.msg.ok)
                   => ~GreaterThan(e.msg.accProposal, e.msg.proposal)

\* The crash point between the two saves of a HandleAccept: SavePromised has
\* stored the new promise, SaveAccepted has not run and the storage still
\* holds an earlier accepted pair.
C40_Witness ==
    \E a \in TestAcceptors :
        /\ apc[a] = "a_save_accepted"
        /\ LoadPromised(sto[a]) = acc[a].hp
        /\ ~IsZero(LoadAccepted(sto[a]).proposal)
        /\ GreaterThan(acc[a].ap, LoadAccepted(sto[a]).proposal)

====
